---- MODULE Spec2Model ----
(***************************************************************************)
(* A model of the bit-generator engine shell of randomgen, as illustrated  *)
(* by the Philox (src/randomgen/philox.pyx) and DSFMT                      *)
(* (src/randomgen/pcg32.pyi, lines 20-352) engines: seeding, the state     *)
(* getter and setter, jump / jumped / advance and the output entry points. *)
(*                                                                         *)
(* Word widths are scaled: UnitBits model bits stand for 32 real bits, so  *)
(* a 32-bit word has UnitBits bits and a 64-bit word 2 * UnitBits bits.    *)
(* All counter arithmetic is done modulo the scaled widths.  The DSFMT     *)
(* twist table is scaled the same way through DSFMT_N.                     *)
(*                                                                         *)
(* The C primitives (the Philox round function, the philoxNxW_next and     *)
(* philoxNxW_advance routines, the dSFMT library) and the helpers of       *)
(* randomgen.common are not part of the sources at hand; they are modelled *)
(* from the specification of the engine shell.                             *)
(***************************************************************************)
EXTENDS Integers, Sequences, FiniteSets, TLC

VARIABLES
    engine,   \* "Philox" or "DSFMT": the class of the instances in this run
    ph,       \* the Philox instance the operations are called on (self)
    ph2,      \* a second Philox instance: the object returned by jumped,
              \* the target of a state assignment, or the twin instance
    ds,       \* the DSFMT instance the operations are called on (self)
    ds2,      \* a second DSFMT instance (as ph2)
    last,     \* the last operation: its name, arguments, outcome, output,
              \* and what the claims need of the state it was called in
    nops,     \* number of operations performed so far
    heap      \* the two native blocks a DSFMT instance owns, and where the
              \* instance is in its life

vars == <<engine, ph, ph2, ds, ds2, last, nops, heap>>

----------------------------------------------------------------------------
(* Bounds of the model *)

\* model bits that stand for 32 real bits
UnitBits == 2
\* operations per run after construction
MaxOps == 2

----------------------------------------------------------------------------
(* Python's None and optional arguments *)

None == <<>>
Some(v) == <<v>>
IsNone(x) == x = <<>>
Val(x) == x[1]

Pow2(k) == 2 ^ k
Max(a, b) == IF a >= b THEN a ELSE b

----------------------------------------------------------------------------
(* Helpers of randomgen.common, used by both engines *)

\* object_to_int(val, bits, name): None stays None, an integer outside
\* [0, 2^bits) is rejected
object_to_int(val, bits) ==
    IF IsNone(val) THEN [exc |-> "none", v |-> None]
    ELSE IF Val(val) < 0 \/ Val(val) >= Pow2(bits)
         THEN [exc |-> "ValueError", v |-> None]
         ELSE [exc |-> "none", v |-> val]

\* int_to_array(value, name, bits, uint_size): the little-endian words
\* value[i] = (n // 2^(width*i)) % 2^width, bits // uint_size of them
int_to_array(value, bits, wbits) ==
    IF value < 0 \/ value >= Pow2(bits)
    THEN [exc |-> "ValueError", a |-> <<>>]
    ELSE [exc |-> "none",
          a |-> [i \in 0..((bits \div wbits) - 1) |->
                    (value \div Pow2(wbits * i)) % Pow2(wbits)]]

\* wrap_int(val, bits): wrap into [0, 2^bits)
wrap_int(val, bits) == val % Pow2(bits)

\* check_state_array(arr, required_len, required_bits, name)
check_state_array(arr, required_len, wbits) ==
    IF \/ DOMAIN arr # 0..(required_len - 1)
       \/ \E i \in DOMAIN arr : arr[i] < 0 \/ arr[i] >= Pow2(wbits)
    THEN [exc |-> "ValueError", a |-> <<>>]
    ELSE [exc |-> "none", a |-> arr]

\* seed_by_array(seed, n): the seed expander; n 64-bit words, as one integer
seed_by_array(seed, n, wbits64) == (seed * 5 + 3) % Pow2(n * wbits64)

----------------------------------------------------------------------------
(* Philox: geometry *)

PHILOX_BUFFER_SIZE == 4

\* units (of UnitBits model bits, i.e. 32 real bits) in a word of width w
Units(w) == IF w = 32 THEN 1 ELSE 2
\* model bits of a word of the given real width (uint32 / uint64)
WordBits(w) == Units(w) * UnitBits

\* The union philox_all_t.state is a block of 12 units; stateNxW is
\* { ctr : N words; key : N/2 words } laid out from unit 0.  A variant is a
\* pair <<N, W>>.
UnionUnits == 4 * Units(64) + 2 * Units(64)
ZeroUnion == [j \in 0..(UnionUnits - 1) |-> 0]

RECURSIVE ReadUnits(_, _, _)
ReadUnits(mem, off, k) ==
    IF k = 0 THEN 0
    ELSE mem[off] + Pow2(UnitBits) * ReadUnits(mem, off + 1, k - 1)

WriteUnits(mem, off, k, x) ==
    [j \in DOMAIN mem |->
        IF j >= off /\ j < off + k
        THEN (x \div Pow2(UnitBits * (j - off))) % Pow2(UnitBits)
        ELSE mem[j]]

CtrOff(v, i) == i * Units(v[2])
KeyOff(v, i) == (v[1] + i) * Units(v[2])

ReadCtr(mem, v, i) == ReadUnits(mem, CtrOff(v, i), Units(v[2]))
ReadKey(mem, v, i) == ReadUnits(mem, KeyOff(v, i), Units(v[2]))
WriteCtr(mem, v, i, x) == WriteUnits(mem, CtrOff(v, i), Units(v[2]), x)
WriteKey(mem, v, i, x) == WriteUnits(mem, KeyOff(v, i), Units(v[2]), x)

\* the whole counter / key of variant v as one integer (little-endian words)
CtrInt(mem, v) == ReadUnits(mem, 0, v[1] * Units(v[2]))
KeyInt(mem, v) == ReadUnits(mem, v[1] * Units(v[2]), (v[1] \div 2) * Units(v[2]))

\* buffer[i] is a union { u64; u32 }: u32 is the low half of u64
BufU32(b) == b % Pow2(WordBits(32))
SetBufU64(b, x) == x % Pow2(WordBits(64))
SetBufU32(b, x) == b - (b % Pow2(WordBits(32))) + (x % Pow2(WordBits(32)))
BufRead(b, w) == IF w = 64 THEN b ELSE BufU32(b)
BufWrite(b, w, x) == IF w = 64 THEN SetBufU64(b, x) ELSE SetBufU32(b, x)

ZeroBuffer == [i \in 0..(PHILOX_BUFFER_SIZE - 1) |-> 0]

Variants == {<<2, 32>>, <<4, 32>>, <<2, 64>>, <<4, 64>>}
NoFns == <<0, 0>>

\* The branch chains "w == 32 and n == 2 / w == 32 and n == 4 /
\* w == 64 and n == 2 / else" that pick the member of the union
StateVariant(n, w) ==
    IF w = 32 /\ n = 2 THEN <<2, 32>>
    ELSE IF w = 32 /\ n = 4 THEN <<4, 32>>
    ELSE IF w = 64 /\ n = 2 THEN <<2, 64>>
    ELSE <<4, 64>>

\* The setter's counter branch: "if w == 32: (n == 2 / else) else: (n == 2 / else)"
SetterCtrVariant(n, w) ==
    IF w = 32 THEN (IF n = 2 THEN <<2, 32>> ELSE <<4, 32>>)
    ELSE (IF n = 2 THEN <<2, 64>> ELSE <<4, 64>>)

\* a freshly allocated object: every field of the struct is zero
PhiloxAlloc ==
    [n |-> 0, w |-> 0, number |-> 0, width |-> 0, mem |-> ZeroUnion,
     buffer |-> ZeroBuffer, buffer_pos |-> 0, has_uint32 |-> 0,
     uinteger |-> 0, fns |-> NoFns]

----------------------------------------------------------------------------
(* Philox: construction, seeding, state *)

Ok(self) == [self |-> self, exc |-> "none"]
Raise(self, e) == [self |-> self, exc |-> e]

\* Philox._setup_generator: bind the four output functions of the variant
Philox_setup_generator(self) ==
    IF <<self.n, self.w>> \in Variants
    THEN [self EXCEPT !.fns = <<self.n, self.w>>]
    ELSE self

\* Philox._reset_state_variables
Philox_reset_state_variables(self) ==
    [self EXCEPT !.uinteger = 0, !.has_uint32 = 0,
                 !.buffer_pos = PHILOX_BUFFER_SIZE, !.buffer = ZeroBuffer]

RECURSIVE WriteKeys(_, _, _, _, _)
WriteKeys(mem, v, arr, i, k) ==
    IF i >= k THEN mem
    ELSE WriteKeys(WriteKey(mem, v, i, arr[i]), v, arr, i + 1, k)

RECURSIVE WriteCtrs(_, _, _, _, _)
WriteCtrs(mem, v, arr, i, k) ==
    IF i >= k THEN mem
    ELSE WriteCtrs(WriteCtr(mem, v, i, arr[i]), v, arr, i + 1, k)

\* the words of width wbits of the integer x, as _seed.view(dtype) gives them
ViewWords(x, wbits, k) == [i \in 0..(k - 1) |-> (x \div Pow2(wbits * i)) % Pow2(wbits)]

\* (mutant) system entropy is mixed into the key whatever seed or key says
PhiloxSeedWords_Entropy(self, seed, key, entropy) ==
    [exc |-> "none",
     a |-> ViewWords((entropy + (IF IsNone(key) THEN 0 ELSE Val(key))
                              + (IF IsNone(seed) THEN 0 ELSE Val(seed)))
                     % Pow2((self.n \div 2) * WordBits(self.w)),
                     WordBits(self.w), Max(self.n \div 2, 1))]

\* (mutant) a key goes through the expander as a seed does
PhiloxSeedWords_Mixed(self, seed, key, entropy) ==
    LET n == self.n
        w == self.w
        u32_size == (n \div 2) * (w \div 32)
        given == IF ~IsNone(key) THEN Val(key) ELSE IF ~IsNone(seed) THEN Val(seed) ELSE 0
    IN  IF ~IsNone(key) \/ ~IsNone(seed)
        THEN [exc |-> "none",
              a |-> ViewWords(seed_by_array(given, Max(u32_size \div 2, 1), WordBits(64)),
                              WordBits(w), Max(n \div 2, 1))]
        ELSE [exc |-> "none",
              a |-> ViewWords(entropy % Pow2(u32_size * UnitBits), WordBits(w),
                              Max(n \div 2, 1))]

\* the key words seed() derives: from key directly, from seed through the
\* expander, or from system entropy
PhiloxSeedWords(self, seed, key, entropy) ==
    LET n == self.n
        w == self.w
        u32_size == (n \div 2) * (w \div 32)
    IN  IF ~IsNone(key)
        THEN int_to_array(Val(key), (n \div 2) * WordBits(w), WordBits(w))
        ELSE IF ~IsNone(seed)
        THEN [exc |-> "none",
              a |-> ViewWords(seed_by_array(Val(seed), Max(u32_size \div 2, 1), WordBits(64)),
                              WordBits(w), Max(n \div 2, 1))]
        ELSE [exc |-> "none",
              a |-> ViewWords(entropy % Pow2(u32_size * UnitBits), WordBits(w),
                              Max(n \div 2, 1))]

\* (mutant) the counter is validated only where its words are made, after
\* the key was written
Philox_seed_LateCounter(self, seed, counter, key, entropy) ==
    LET n == self.n
        w == self.w
        v == StateVariant(n, w)
        s == object_to_int(seed, (n * WordBits(w)) \div 2)
        k == object_to_int(key, (n \div 2) * WordBits(w))
    IN  IF s.exc # "none" \/ k.exc # "none"
        THEN Raise(self, "ValueError")
        ELSE IF ~IsNone(s.v) /\ ~IsNone(k.v)
        THEN Raise(self, "ValueError")
        ELSE
        LET words == PhiloxSeedWords(self, s.v, k.v, entropy)
            keyed == [self EXCEPT !.mem = WriteKeys(self.mem, v, words.a, 0, n \div 2)]
            cval == IF IsNone(counter) THEN 0 ELSE Val(counter)
            carr == int_to_array(cval, n * WordBits(w), WordBits(w))
        IN  IF carr.exc # "none" THEN Raise(keyed, carr.exc)
            ELSE Ok(Philox_reset_state_variables(
                     [keyed EXCEPT !.mem = WriteCtrs(keyed.mem, v, carr.a, 0, n)]))

\* Philox.seed(seed, counter, key); entropy is what random_entropy returns
\* when it is asked
Philox_seed(self, seed, counter, key, entropy) ==
    LET n == self.n
        w == self.w
        v == StateVariant(n, w)
        s == object_to_int(seed, (n * WordBits(w)) \div 2)
        k == object_to_int(key, (n \div 2) * WordBits(w))
        c == object_to_int(counter, n * WordBits(w))
    IN  IF s.exc # "none" \/ k.exc # "none" \/ c.exc # "none"
        THEN Raise(self, "ValueError")
        ELSE IF ~IsNone(s.v) /\ ~IsNone(k.v)
        THEN Raise(self, "ValueError")
        ELSE
        LET words == PhiloxSeedWords(self, s.v, k.v, entropy)
        IN  IF words.exc # "none" THEN Raise(self, words.exc)
            ELSE
            LET keyed == [self EXCEPT !.mem = WriteKeys(self.mem, v, words.a, 0, n \div 2)]
                cval == IF IsNone(c.v) THEN 0 ELSE Val(c.v)
                carr == int_to_array(cval, n * WordBits(w), WordBits(w))
            IN  IF carr.exc # "none" THEN Raise(keyed, carr.exc)
                ELSE Ok(Philox_reset_state_variables(
                         [keyed EXCEPT !.mem = WriteCtrs(keyed.mem, v, carr.a, 0, n)]))

\* Philox.__init__(seed, counter, key, number, width)
Philox_init(seed, counter, key, number, width, entropy) ==
    IF number \notin {2, 4} THEN Raise(PhiloxAlloc, "ValueError")
    ELSE IF width \notin {32, 64} THEN Raise(PhiloxAlloc, "ValueError")
    ELSE
    LET obj == [PhiloxAlloc EXCEPT !.n = number, !.w = width,
                                   !.number = number, !.width = width]
        r == Philox_seed(obj, seed, counter, key, entropy)
    IN  IF r.exc # "none" THEN r ELSE Ok(Philox_setup_generator(r.self))

\* Philox.state (getter)
Philox_state_get(self) ==
    LET n == self.n
        w == self.w
        v == StateVariant(n, w)
    IN  [bit_generator |-> "Philox",
         state |-> [counter |-> [i \in 0..(n - 1) |-> ReadCtr(self.mem, v, i)],
                    key |-> [i \in 0..((n \div 2) - 1) |-> ReadKey(self.mem, v, i)]],
         buffer |-> [i \in 0..(n - 1) |->
                        IF w = 64 THEN self.buffer[i] ELSE BufU32(self.buffer[i])],
         buffer_pos |-> self.buffer_pos,
         has_uint32 |-> self.has_uint32,
         uinteger |-> self.uinteger,
         number |-> self.number,
         width |-> self.width]

\* a value handed to a state setter: a dict d, or something that is no dict
Dict(d) == [type |-> "dict", d |-> d]
NotADict == [type |-> "list", d |-> [x |-> 0]]
DictGet(d, k, default) == IF k \in DOMAIN d THEN d[k] ELSE default

RECURSIVE WriteBufs(_, _, _, _, _)
WriteBufs(buf, w, arr, i, k) ==
    IF i >= k THEN buf
    ELSE WriteBufs([buf EXCEPT ![i] = BufWrite(buf[i], IF w = 32 THEN 32 ELSE 64, arr[i])],
                   w, arr, i + 1, k)

\* (mutant) the setter leaves the cursor where the reset put it
PhiloxSetLeftover_NoCursor(s3, d) ==
    Ok([s3 EXCEPT !.has_uint32 = d.has_uint32, !.uinteger = d.uinteger])

\* the last three assignments of the Philox state setter
PhiloxSetLeftover(s3, d) ==
    IF "has_uint32" \notin DOMAIN d THEN Raise(s3, "KeyError")
    ELSE
    LET s4 == [s3 EXCEPT !.has_uint32 = d.has_uint32]
    IN  IF "uinteger" \notin DOMAIN d THEN Raise(s4, "KeyError")
        ELSE IF d.uinteger < 0 \/ d.uinteger >= Pow2(WordBits(32))
        THEN Raise(s4, "OverflowError")
        ELSE
        LET s5 == [s4 EXCEPT !.uinteger = d.uinteger]
        IN  IF "buffer_pos" \notin DOMAIN d THEN Raise(s5, "KeyError")
            ELSE Ok([s5 EXCEPT !.buffer_pos = d.buffer_pos])

\* Philox.state (setter), after the type and tag checks: the fields are
\* written from the dict d
PhiloxSetFields(self, d) ==
    LET number == DictGet(d, "number", 4)
        width == DictGet(d, "width", 64)
        s1 == Philox_setup_generator(
                  [self EXCEPT !.number = number, !.n = number,
                               !.width = width, !.w = width])
        n == s1.n
        w == s1.w
    IN  IF "state" \notin DOMAIN d THEN Raise(s1, "KeyError")
        ELSE IF "counter" \notin DOMAIN d.state THEN Raise(s1, "KeyError")
        ELSE
        LET ctr == check_state_array(d.state.counter, n, WordBits(w))
        IN  IF ctr.exc # "none" THEN Raise(s1, ctr.exc)
            ELSE IF "key" \notin DOMAIN d.state THEN Raise(s1, "KeyError")
            ELSE
            LET key == check_state_array(d.state.key, n \div 2, WordBits(w))
            IN  IF key.exc # "none" THEN Raise(s1, key.exc)
                ELSE IF "buffer" \notin DOMAIN d THEN Raise(s1, "KeyError")
                ELSE
                LET buffer == check_state_array(d.buffer, n, WordBits(w))
                IN  IF buffer.exc # "none" THEN Raise(s1, buffer.exc)
                    ELSE
                    LET s2 == Philox_reset_state_variables(s1)
                        s3 == [s2 EXCEPT
                                 !.buffer = WriteBufs(s2.buffer, w, buffer.a, 0, n),
                                 !.mem = WriteKeys(
                                            WriteCtrs(s2.mem, SetterCtrVariant(n, w), ctr.a, 0, n),
                                            StateVariant(n, w), key.a, 0, n \div 2)]
                    IN  PhiloxSetLeftover(s3, d)

\* (mutant) the tag is compared only after the fields were written
Philox_state_set_TagLate(self, value) ==
    IF value.type # "dict" THEN Raise(self, "TypeError")
    ELSE LET r == PhiloxSetFields(self, value.d)
         IN  IF DictGet(value.d, "bit_generator", "") # "Philox"
             THEN Raise(r.self, "ValueError")
             ELSE r

\* Philox.state (setter)
Philox_state_set(self, value) ==
    IF value.type # "dict" THEN Raise(self, "TypeError")
    ELSE IF DictGet(value.d, "bit_generator", "") # "Philox"
    THEN Raise(self, "ValueError")
    ELSE PhiloxSetFields(self, value.d)

----------------------------------------------------------------------------
(* Philox: the C primitives behind the output functions and the stride *)

\* the round function: N output words from counter and key (a black box;
\* any fixed function of counter, key and position will do)
philox_R(v, ctr, key, i) == (ctr * 3 + key * 5 + i * 7 + 1) % Pow2(WordBits(v[2]))

RegenBuffer(buf, v, ctr, key) ==
    [i \in DOMAIN buf |->
        IF i < v[1] THEN BufWrite(buf[i], v[2], philox_R(v, ctr, key, i)) ELSE buf[i]]

\* philoxNxW_next: serve the next buffered word, or bump the counter,
\* regenerate the N buffer words and serve the first
philox_next(self, v) ==
    IF self.buffer_pos < v[1]
    THEN [self |-> [self EXCEPT !.buffer_pos = self.buffer_pos + 1],
          out |-> BufRead(self.buffer[self.buffer_pos], v[2])]
    ELSE
    LET ctr == (CtrInt(self.mem, v) + 1) % Pow2(v[1] * WordBits(v[2]))
        buf == RegenBuffer(self.buffer, v, ctr, KeyInt(self.mem, v))
    IN  [self |-> [self EXCEPT !.mem = WriteUnits(self.mem, 0, v[1] * Units(v[2]), ctr),
                               !.buffer = buf, !.buffer_pos = 1],
         out |-> BufRead(buf[0], v[2])]

\* philoxNxW_next64: one raw word (W = 64) or two (W = 32)
philox_next64(self, v) ==
    IF v[2] = 64 THEN philox_next(self, v)
    ELSE LET a == philox_next(self, v)
             b == philox_next(a.self, v)
         IN  [self |-> b.self, out |-> a.out + Pow2(WordBits(32)) * b.out]

\* philoxNxW_next32: for W = 64 the leftover half is served first, else a
\* raw word is split and its upper half cached
philox_next32(self, v) ==
    IF v[2] = 32 THEN philox_next(self, v)
    ELSE IF self.has_uint32 # 0
    THEN [self |-> [self EXCEPT !.has_uint32 = 0], out |-> self.uinteger]
    ELSE LET a == philox_next(self, v)
         IN  [self |-> [a.self EXCEPT !.has_uint32 = 1,
                                      !.uinteger = a.out \div Pow2(WordBits(32))],
              out |-> a.out % Pow2(WordBits(32))]

\* philoxNxW_advance(state, step, use_carry): step counts draws in N + 1
\* words; the counter moves by step // N, the buffer cursor by step % N when
\* use_carry is set, and the buffer is regenerated
philox_advance(self, v, step, use_carry) ==
    LET N == v[1]
        next_buffer_pos == self.buffer_pos + (step % N)
        carry == IF use_carry /\ next_buffer_pos >= N THEN 1 ELSE 0
        ctr == (CtrInt(self.mem, v) + (step \div N) + carry) % Pow2(N * WordBits(v[2]))
    IN  [self EXCEPT !.mem = WriteUnits(self.mem, 0, N * Units(v[2]), ctr),
                     !.buffer = RegenBuffer(self.buffer, v, ctr, KeyInt(self.mem, v)),
                     !.buffer_pos = IF use_carry THEN next_buffer_pos % N
                                    ELSE self.buffer_pos]

----------------------------------------------------------------------------
(* Philox: advance, jump, jumped *)

\* the integer a little-endian word array stands for
RECURSIVE WordsInt(_, _, _)
WordsInt(a, wbits, k) ==
    IF k = 0 THEN 0
    ELSE a[k - 1] * Pow2(wbits * (k - 1)) + WordsInt(a, wbits, k - 1)

\* (mutant) advance resets the buffer whatever the counter flag says
Philox_advance_AlwaysReset(self, delta, counter) ==
    LET ctrflag == IF IsNone(counter) THEN TRUE ELSE Val(counter)
        n == self.n
        w == self.w
    IN  IF delta = 0 THEN self
        ELSE
        LET d1 == IF ctrflag THEN delta * n ELSE delta
            d2 == wrap_int(d1, n * WordBits(w) + (n \div 2))
        IN  Philox_reset_state_variables(
                philox_advance(self, StateVariant(n, w), d2, ~ctrflag))

\* Philox.advance(delta, counter=None)
Philox_advance(self, delta, counter) ==
    LET ctrflag == IF IsNone(counter) THEN TRUE ELSE Val(counter)
        n == self.n
        w == self.w
    IN  IF delta = 0 THEN self
        ELSE
        LET d1 == IF ctrflag THEN delta * n ELSE delta
            d2 == wrap_int(d1, n * WordBits(w) + (n \div 2))
            \* n + 1 words always hold the wrapped delta: n // 2 <= w
            delta_a == int_to_array(d2, (n + 1) * WordBits(w), WordBits(w))
            s1 == philox_advance(self, StateVariant(n, w),
                                 WordsInt(delta_a.a, WordBits(w), n + 1), ~ctrflag)
            s2 == [s1 EXCEPT !.uinteger = 0, !.has_uint32 = 0]
        IN  IF ctrflag THEN Philox_reset_state_variables(s2) ELSE s2

\* Philox.jump_inplace(iter)
Philox_jump_inplace(self, iter) ==
    LET step_size == (WordBits(self.w) * self.n) \div 2
    IN  Philox_advance(self, iter * Pow2(step_size), Some(TRUE))

\* Philox.jump(iter): warns, jumps self in place, returns self
Philox_jump(self, iter) ==
    LET s == Philox_jump_inplace(self, iter)
    IN  [self |-> s, ret |-> s, warning |-> "DeprecationWarning"]

\* (mutant) jumped as a shortcut: jump self, hand out a copy of it
Philox_jumped_InPlace(self, iter, entropy) ==
    LET s == Philox_jump_inplace(self, iter)
    IN  [self |-> s, ret |-> s, exc |-> "none"]

\* Philox.jumped(iter): a new default instance receives the snapshot and is
\* jumped; entropy seeds the new instance
Philox_jumped(self, iter, entropy) ==
    LET fresh == Philox_init(None, None, None, 4, 64, entropy).self
        copy == Philox_state_set(fresh, Dict(Philox_state_get(self)))
    IN  IF copy.exc # "none"
        THEN [self |-> self, ret |-> copy.self, exc |-> copy.exc]
        ELSE [self |-> self, ret |-> Philox_jump_inplace(copy.self, iter), exc |-> "none"]

----------------------------------------------------------------------------
(* DSFMT: geometry and the dSFMT library *)

\* ((DSFMT_MEXP - 128) / 104 + 1) in the source (191), scaled down
DSFMT_N == 1
DSFMT_N_PLUS_1 == DSFMT_N + 1
DSFMT_N64 == DSFMT_N * 2
StatusLen == 2 * DSFMT_N_PLUS_1

Word64 == Pow2(WordBits(64))
Word32 == Pow2(WordBits(32))

ZeroStatus == [i \in 0..(StatusLen - 1) |-> 0]
ZeroUniforms == [i \in 0..(DSFMT_N64 - 1) |-> 0]

\* rng_state.state and rng_state.buffered_uniforms: each pointer is "null",
\* points to a "live" block, or still points to a block that was "freed";
\* phase is "new" before __init__, "ready" after it, "failed" when it
\* raised, "dead" once __dealloc__ ran; fault records a use of a block
\* that is not live
NullHeap ==
    [phase |-> "new", state |-> "null", uniforms |-> "null",
     state_frees |-> 0, uniforms_frees |-> 0, fault |-> FALSE]
LiveHeap == [NullHeap EXCEPT !.phase = "ready", !.state = "live", !.uniforms = "live"]

\* a freshly allocated object: the struct is zero, the two blocks are
\* allocated (the uniform buffer with calloc)
DSFMTAlloc ==
    [status |-> ZeroStatus, idx |-> 0, has_uint32 |-> 0, uinteger |-> 0,
     buffered_uniforms |-> ZeroUniforms, buffer_loc |-> 0]

\* dsfmt_init_gen_rand(dsfmt, seed)
dsfmt_init_gen_rand(self, seed) ==
    [self EXCEPT !.status = [i \in 0..(StatusLen - 1) |-> (seed * 7 + i * 3 + 1) % Word64],
                 !.idx = DSFMT_N64]

RECURSIVE ArrayHash(_, _)
ArrayHash(a, k) ==
    IF k = 0 THEN 5 ELSE (ArrayHash(a, k - 1) * 3 + a[k] + k) % Word64

\* dsfmt_init_by_array(dsfmt, init_key, key_length)
dsfmt_init_by_array(self, a) ==
    [self EXCEPT !.status = [i \in 0..(StatusLen - 1) |->
                                (ArrayHash(a, Len(a)) * 5 + i + 2) % Word64],
                 !.idx = DSFMT_N64]

\* one application of the jump polynomial
dsfmt_jump(self) ==
    [self EXCEPT !.status = [i \in 0..(StatusLen - 1) |->
                                (self.status[i] * 3 + 7 * (i + 1)) % Word64]]

\* dsfmt_jump_n(state, count)
RECURSIVE dsfmt_jump_n(_, _)
dsfmt_jump_n(self, count) ==
    IF count <= 0 THEN self ELSE dsfmt_jump_n(dsfmt_jump(self), count - 1)

\* the twist: a new block of uniforms, the table moved on
dsfmt_fill(self) ==
    LET st == [i \in 0..(StatusLen - 1) |->
                  (self.status[i] * 5 + self.status[(i + 1) % StatusLen] + 1) % Word64]
    IN  [self EXCEPT !.status = st,
                     !.buffered_uniforms = [i \in 0..(DSFMT_N64 - 1) |->
                                               (st[i] + st[i + 1] * 3) % Word64],
                     !.buffer_loc = 0]

\* dsfmt_next_double: refill when the cursor is at the end, then serve
dsfmt_next_double(self) ==
    LET s == IF self.buffer_loc >= DSFMT_N64 THEN dsfmt_fill(self) ELSE self
    IN  [self |-> [s EXCEPT !.buffer_loc = s.buffer_loc + 1],
         out |-> s.buffered_uniforms[s.buffer_loc]]

\* dsfmt_next64
dsfmt_next64(self) == dsfmt_next_double(self)

\* dsfmt_next32: the leftover half is served first, else a word is split
dsfmt_next32(self) ==
    IF self.has_uint32 # 0
    THEN [self |-> [self EXCEPT !.has_uint32 = 0], out |-> self.uinteger]
    ELSE LET a == dsfmt_next_double(self)
         IN  [self |-> [a.self EXCEPT !.has_uint32 = 1, !.uinteger = a.out \div Word32],
              out |-> a.out % Word32]

----------------------------------------------------------------------------
(* DSFMT: the engine shell *)

NoSeed == [k |-> "none", v |-> 0, a |-> <<>>]
IntSeed(x) == [k |-> "int", v |-> x, a |-> <<>>]
ArraySeed(x) == [k |-> "array", v |-> 0, a |-> x]

\* DSFMT._reset_state_variables
DSFMT_reset_state_variables(self) == [self EXCEPT !.buffer_loc = DSFMT_N64]

\* (mutant) the integer seed is handed to the library before it is checked
DSFMT_seed_InitFirst(self, seed, entropy) ==
    IF seed.k = "none"
    THEN Ok(DSFMT_reset_state_variables(dsfmt_init_by_array(self, entropy)))
    ELSE IF seed.k = "int"
    THEN IF seed.v > Word32 - 1 \/ seed.v < 0
         THEN Raise(dsfmt_init_gen_rand(self, seed.v), "ValueError")
         ELSE Ok(DSFMT_reset_state_variables(dsfmt_init_gen_rand(self, seed.v)))
    ELSE IF \E i \in DOMAIN seed.a : seed.a[i] > Word32 - 1 \/ seed.a[i] < 0
         THEN Raise(self, "ValueError")
         ELSE Ok(DSFMT_reset_state_variables(dsfmt_init_by_array(self, seed.a)))

\* DSFMT.seed(seed); entropy is the array random_entropy returns when asked
DSFMT_seed(self, seed, entropy) ==
    IF seed.k = "none"
    THEN Ok(DSFMT_reset_state_variables(dsfmt_init_by_array(self, entropy)))
    ELSE IF seed.k = "int"
    THEN IF seed.v > Word32 - 1 \/ seed.v < 0
         THEN Raise(self, "ValueError")
         ELSE Ok(DSFMT_reset_state_variables(dsfmt_init_gen_rand(self, seed.v)))
    ELSE IF \E i \in DOMAIN seed.a : seed.a[i] > Word32 - 1 \/ seed.a[i] < 0
         THEN Raise(self, "ValueError")
         ELSE Ok(DSFMT_reset_state_variables(dsfmt_init_by_array(self, seed.a)))

\* DSFMT.__init__(seed)
DSFMT_init(seed, entropy) ==
    DSFMT_seed([DSFMTAlloc EXCEPT !.buffer_loc = DSFMT_N64], seed, entropy)

\* DSFMT.jump_inplace(iter)
DSFMT_jump_inplace(self, iter) ==
    IF iter < 0 THEN Raise(self, "ValueError")
    ELSE Ok(DSFMT_reset_state_variables(dsfmt_jump_n(self, iter)))

\* DSFMT.jump(iter): warns, jumps self in place, returns self
DSFMT_jump(self, iter) ==
    LET r == DSFMT_jump_inplace(self, iter)
    IN  [self |-> r.self, ret |-> r.self, exc |-> r.exc, warning |-> "DeprecationWarning"]

\* DSFMT.state (getter)
DSFMT_state_get(self) ==
    [bit_generator |-> "DSFMT",
     state |-> [state |-> self.status, idx |-> self.idx],
     buffer_loc |-> self.buffer_loc,
     buffered_uniforms |-> self.buffered_uniforms]

\* DSFMT.state (setter)
DSFMT_state_set(self, value) ==
    IF value.type # "dict" THEN Raise(self, "TypeError")
    ELSE IF DictGet(value.d, "bit_generator", "") # "DSFMT"
    THEN Raise(self, "ValueError")
    ELSE
    LET d == value.d
    IN  IF "state" \notin DOMAIN d THEN Raise(self, "KeyError")
        ELSE IF "state" \notin DOMAIN d.state THEN Raise(self, "KeyError")
        ELSE
        LET state == check_state_array(d.state.state, StatusLen, WordBits(64))
        IN  IF state.exc # "none" THEN Raise(self, state.exc)
            ELSE
            LET s1 == [self EXCEPT !.status = state.a]
            IN  IF "idx" \notin DOMAIN d.state THEN Raise(s1, "KeyError")
                ELSE
                LET s2 == [s1 EXCEPT !.idx = d.state.idx]
                IN  IF "buffered_uniforms" \notin DOMAIN d THEN Raise(s2, "KeyError")
                    ELSE
                    LET bu == d.buffered_uniforms
                        short == {i \in 0..(DSFMT_N64 - 1) : i \notin DOMAIN bu}
                        s3 == [s2 EXCEPT !.buffered_uniforms =
                                 [i \in 0..(DSFMT_N64 - 1) |->
                                     IF \A j \in short : i < j THEN bu[i]
                                     ELSE s2.buffered_uniforms[i]]]
                    IN  IF short # {} THEN Raise(s3, "IndexError")
                        ELSE IF "buffer_loc" \notin DOMAIN d THEN Raise(s3, "KeyError")
                        ELSE Ok([s3 EXCEPT !.buffer_loc = d.buffer_loc])

\* DSFMT.jumped(iter): a new default instance receives the snapshot and is
\* jumped; entropy seeds the new instance
DSFMT_jumped(self, iter, entropy) ==
    LET fresh == DSFMT_init(NoSeed, entropy).self
        copy == DSFMT_state_set(fresh, Dict(DSFMT_state_get(self)))
    IN  IF copy.exc # "none"
        THEN [self |-> self, ret |-> copy.self, exc |-> copy.exc]
        ELSE LET j == DSFMT_jump_inplace(copy.self, iter)
             IN  [self |-> self, ret |-> j.self, exc |-> j.exc]

----------------------------------------------------------------------------
(* The output entry points bound to an instance *)

DrawKinds == {"raw", "uint32", "uint64", "double"}

\* the function table _setup_generator binds: next_raw is the 64-bit
\* function for W = 64 and the 32-bit one for W = 32
Philox_draw(self, kind) ==
    LET v == self.fns
    IN  IF kind = "uint32" THEN philox_next32(self, v)
        ELSE IF kind = "uint64" THEN philox_next64(self, v)
        ELSE IF kind = "double"
        THEN LET r == philox_next64(self, v) IN [self |-> r.self, out |-> r.out \div 2]
        ELSE IF v[2] = 64 THEN philox_next64(self, v) ELSE philox_next32(self, v)

\* the function table DSFMT.__init__ binds
DSFMT_draw(self, kind) ==
    IF kind = "uint32" THEN dsfmt_next32(self)
    ELSE IF kind = "uint64" THEN dsfmt_next64(self)
    ELSE dsfmt_next_double(self)

----------------------------------------------------------------------------
(* Inputs of the operations *)

EntropyVals == {3, 6}
\* seed(seed, counter, key) argument triples: entropy, a seed, a key with a
\* counter, seed and key together, a negative seed, a negative counter
SeedArgs ==
    {<<None, None, None>>, <<Some(1), None, None>>, <<None, Some(5), Some(2)>>,
     <<Some(1), None, Some(2)>>, <<Some(-1), None, None>>, <<Some(1), Some(-1), None>>}
DeltaVals == {-1, 0, 3}
FlagVals == {None, Some(TRUE), Some(FALSE)}
IterVals == {0, 1, 2}
JumpedIterVals == {-1, 0, 1, 2}
DSFMTSeedVals == {NoSeed, IntSeed(1), IntSeed(-1), ArraySeed(<<1, 2>>), ArraySeed(<<1, 4>>)}
DSFMTEntropyVals == {<<3, 1>>, <<2, 2>>}

\* the entropy an operation may be handed: it matters only when it is asked for
EntropyFor(seed, key) == IF IsNone(seed) /\ IsNone(key) THEN EntropyVals ELSE {3}

NoOp ==
    [op |-> "init", exc |-> "none", out |-> 0, out2 |-> 0, arg |-> 0, flag |-> None,
     seed |-> None, counter |-> None, key |-> None,
     pre_has_uint32 |-> 0, pre_buffer_pos |-> 0]

Op(name, exc) == [NoOp EXCEPT !.op = name, !.exc = exc]

----------------------------------------------------------------------------
(* The state machine: one instance of one engine is constructed, then      *)
(* operations are called on it                                             *)

InitPhilox ==
    /\ engine = "Philox"
    /\ \E v \in Variants :
          \E a \in {<<Some(1), None, None>>, <<None, None, Some(2)>>,
                    <<None, Some(5), None>>} :
             /\ ph = Philox_init(a[1], a[2], a[3], v[1], v[2],
                                 CHOOSE e \in EntropyVals : TRUE).self
             /\ last = [NoOp EXCEPT !.seed = a[1], !.counter = a[2], !.key = a[3]]
    /\ ph2 = PhiloxAlloc
    /\ ds = DSFMTAlloc
    /\ ds2 = DSFMTAlloc
    /\ nops = 0
    /\ heap = LiveHeap

InitDSFMT ==
    /\ engine = "DSFMT"
    /\ \E s \in {NoSeed, IntSeed(1), ArraySeed(<<1, 2>>)}, e \in DSFMTEntropyVals :
          ds = DSFMT_init(s, e).self
    /\ last = NoOp
    /\ ds2 = DSFMTAlloc
    /\ ph = PhiloxAlloc
    /\ ph2 = PhiloxAlloc
    /\ nops = 0
    /\ heap = LiveHeap

Init == InitPhilox \/ InitDSFMT

\* one call on a constructed instance; no block is allocated or freed
Step == nops < MaxOps /\ nops' = nops + 1 /\ heap' = heap

\* self.seed(seed, counter, key)
PhSeed ==
    /\ engine = "Philox" /\ Step
    /\ \E a \in SeedArgs : \E e \in EntropyFor(a[1], a[3]) :
          \E r \in {Philox_seed(ph, a[1], a[2], a[3], e)} :
              /\ ph' = r.self
              /\ last' = [Op("seed", r.exc) EXCEPT !.seed = a[1], !.counter = a[2],
                                                   !.key = a[3],
                                                   !.pre_has_uint32 = ph.has_uint32,
                                                   !.pre_buffer_pos = ph.buffer_pos]
    /\ UNCHANGED <<engine, ph2, ds, ds2>>

\* one call of an output function bound to self
PhDraw ==
    /\ engine = "Philox" /\ Step
    /\ ph.buffer_pos >= 0
    /\ \E kind \in DrawKinds :
          \E r \in {Philox_draw(ph, kind)} :
              /\ ph' = r.self
              /\ last' = [Op(kind, "none") EXCEPT !.out = r.out,
                                                  !.pre_has_uint32 = ph.has_uint32,
                                                  !.pre_buffer_pos = ph.buffer_pos]
    /\ UNCHANGED <<engine, ph2, ds, ds2>>

\* self.advance(delta, counter)
PhAdvance ==
    /\ engine = "Philox" /\ Step
    /\ \E delta \in DeltaVals, counter \in FlagVals :
          /\ ph' = Philox_advance(ph, delta, counter)
          /\ last' = [Op("advance", "none") EXCEPT !.arg = delta, !.flag = counter,
                                                   !.pre_has_uint32 = ph.has_uint32,
                                                   !.pre_buffer_pos = ph.buffer_pos]
    /\ UNCHANGED <<engine, ph2, ds, ds2>>

\* self.jump(iter)
PhJump ==
    /\ engine = "Philox" /\ Step
    /\ \E iter \in IterVals :
          /\ ph' = Philox_jump(ph, iter).self
          /\ last' = [Op("jump", "none") EXCEPT !.arg = iter,
                                                !.pre_has_uint32 = ph.has_uint32,
                                                !.pre_buffer_pos = ph.buffer_pos]
    /\ UNCHANGED <<engine, ph2, ds, ds2>>

\* ph2 = self.jumped(iter)
PhJumped ==
    /\ engine = "Philox" /\ Step
    /\ \E iter \in JumpedIterVals :
          \E r \in {Philox_jumped(ph, iter, CHOOSE e \in EntropyVals : TRUE)} :
              /\ ph' = r.self
              /\ ph2' = r.ret
              /\ last' = [Op("jumped", r.exc) EXCEPT !.arg = iter,
                                                    !.pre_has_uint32 = ph.has_uint32,
                                                    !.pre_buffer_pos = ph.buffer_pos]
    /\ UNCHANGED <<engine, ds, ds2>>

\* the values assigned to self.state: the instance's own snapshot, the
\* snapshot held by the second instance, and a snapshot edited by hand
PhStateValues ==
    {Dict(Philox_state_get(ph)),
     Dict([Philox_state_get(ph) EXCEPT !.has_uint32 = 1, !.uinteger = 1])}
    \cup (IF ph2.fns # NoFns THEN {Dict(Philox_state_get(ph2))} ELSE {})

\* self.state = value
PhSetState ==
    /\ engine = "Philox" /\ Step
    /\ \E value \in PhStateValues :
          \E r \in {Philox_state_set(ph, value)} :
              /\ ph' = r.self
              /\ last' = [Op(IF value = Dict(Philox_state_get(ph)) THEN "roundtrip"
                             ELSE IF ph2.fns # NoFns /\ value = Dict(Philox_state_get(ph2))
                             THEN "restore" ELSE "state_set", r.exc)
                          EXCEPT !.pre_has_uint32 = ph.has_uint32,
                                 !.pre_buffer_pos = ph.buffer_pos]
    /\ UNCHANGED <<engine, ph2, ds, ds2>>

\* other.state = self.state, where other is the second instance or a newly
\* constructed Philox(number=N, width=W)
PhAssign ==
    /\ engine = "Philox" /\ Step
    /\ \E target \in {Philox_init(None, None, None, v[1], v[2], 6).self :
                         v \in {<<4, 64>>, <<2, 32>>}}
                     \cup (IF ph2.fns # NoFns THEN {ph2} ELSE {}) :
          \E r \in {Philox_state_set(target, Dict(Philox_state_get(ph)))} :
              /\ ph2' = r.self
              /\ last' = [Op("assign", r.exc) EXCEPT !.pre_has_uint32 = ph.has_uint32,
                                                    !.pre_buffer_pos = ph.buffer_pos]
    /\ UNCHANGED <<engine, ph, ds, ds2>>

NextPhilox ==
    \/ PhSeed
    \/ PhDraw
    \/ PhAdvance
    \/ PhJump
    \/ PhJumped
    \/ PhSetState
    \/ PhAssign

\* self.seed(seed)
DsSeed ==
    /\ engine = "DSFMT" /\ Step
    /\ \E seed \in DSFMTSeedVals :
          \E e \in (IF seed.k = "none" THEN DSFMTEntropyVals ELSE {<<3, 1>>}) :
          \E r \in {DSFMT_seed(ds, seed, e)} :
              /\ ds' = r.self
              /\ last' = [Op("seed", r.exc) EXCEPT !.pre_has_uint32 = ds.has_uint32,
                                                   !.pre_buffer_pos = ds.buffer_loc]
    /\ UNCHANGED <<engine, ph, ph2, ds2>>

\* one call of an output function bound to self
DsDraw ==
    /\ engine = "DSFMT" /\ Step
    /\ ds.buffer_loc >= 0
    /\ \E kind \in DrawKinds :
          \E r \in {DSFMT_draw(ds, kind)} :
              /\ ds' = r.self
              /\ last' = [Op(kind, "none") EXCEPT !.out = r.out,
                                                  !.pre_has_uint32 = ds.has_uint32,
                                                  !.pre_buffer_pos = ds.buffer_loc]
    /\ UNCHANGED <<engine, ph, ph2, ds2>>

\* self.jump(iter)
DsJump ==
    /\ engine = "DSFMT" /\ Step
    /\ \E iter \in JumpedIterVals :
          \E r \in {DSFMT_jump(ds, iter)} :
              /\ ds' = r.self
              /\ last' = [Op("jump", r.exc) EXCEPT !.arg = iter,
                                                  !.pre_has_uint32 = ds.has_uint32,
                                                  !.pre_buffer_pos = ds.buffer_loc]
    /\ UNCHANGED <<engine, ph, ph2, ds2>>

\* ds2 = self.jumped(iter); when the call raises nothing is returned
DsJumped ==
    /\ engine = "DSFMT" /\ Step
    /\ \E iter \in JumpedIterVals :
          \E r \in {DSFMT_jumped(ds, iter, CHOOSE e \in DSFMTEntropyVals : TRUE)} :
              /\ ds' = r.self
              /\ ds2' = IF r.exc = "none" THEN r.ret ELSE ds2
              /\ last' = [Op("jumped", r.exc) EXCEPT !.arg = iter,
                                                    !.pre_has_uint32 = ds.has_uint32,
                                                    !.pre_buffer_pos = ds.buffer_loc]
    /\ UNCHANGED <<engine, ph, ph2>>

\* the values assigned to self.state: the instance's own snapshot and the
\* snapshot held by the second instance
DsStateValues ==
    {Dict(DSFMT_state_get(ds))}
    \cup (IF ds2.buffer_loc # 0 \/ ds2.idx # 0 THEN {Dict(DSFMT_state_get(ds2))} ELSE {})

\* self.state = value
DsSetState ==
    /\ engine = "DSFMT" /\ Step
    /\ \E value \in DsStateValues :
          \E r \in {DSFMT_state_set(ds, value)} :
              /\ ds' = r.self
              /\ last' = [Op(IF value = Dict(DSFMT_state_get(ds)) THEN "roundtrip"
                             ELSE "restore", r.exc)
                          EXCEPT !.pre_has_uint32 = ds.has_uint32,
                                 !.pre_buffer_pos = ds.buffer_loc]
    /\ UNCHANGED <<engine, ph, ph2, ds2>>

\* other.state = self.state, where other is a newly constructed DSFMT()
DsAssign ==
    /\ engine = "DSFMT" /\ Step
    /\ \E e \in DSFMTEntropyVals :
          \E r \in {DSFMT_state_set(DSFMT_init(NoSeed, e).self, Dict(DSFMT_state_get(ds)))} :
              /\ ds2' = r.self
              /\ last' = [Op("assign", r.exc) EXCEPT !.pre_has_uint32 = ds.has_uint32,
                                                    !.pre_buffer_pos = ds.buffer_loc]
    /\ UNCHANGED <<engine, ph, ph2, ds>>

NextDSFMT ==
    \/ DsSeed
    \/ DsDraw
    \/ DsJump
    \/ DsJumped
    \/ DsSetState
    \/ DsAssign

Next == NextPhilox \/ NextDSFMT

Spec == Init /\ [][Next]_vars

----------------------------------------------------------------------------
(* Two instances constructed alike and driven alike: ph / ph2, ds / ds2 *)

TwinArgs == {<<Some(1), None, None>>, <<None, Some(5), Some(2)>>, <<Some(0), Some(3), None>>}
TwinSeeds == {IntSeed(1), IntSeed(0), ArraySeed(<<1, 2>>)}

InitTwin ==
    /\ last = NoOp
    /\ nops = 0
    /\ heap = LiveHeap
    /\ \/ /\ engine = "Philox"
          /\ \E v \in Variants, a \in TwinArgs, e1 \in EntropyVals, e2 \in EntropyVals :
                /\ ph = Philox_init(a[1], a[2], a[3], v[1], v[2], e1).self
                /\ ph2 = Philox_init(a[1], a[2], a[3], v[1], v[2], e2).self
          /\ ds = DSFMTAlloc
          /\ ds2 = DSFMTAlloc
       \/ /\ engine = "DSFMT"
          /\ \E s \in TwinSeeds, e1 \in DSFMTEntropyVals, e2 \in DSFMTEntropyVals :
                /\ ds = DSFMT_init(s, e1).self
                /\ ds2 = DSFMT_init(s, e2).self
          /\ ph = PhiloxAlloc
          /\ ph2 = PhiloxAlloc

TwPhDraw ==
    /\ engine = "Philox" /\ Step
    /\ \E kind \in DrawKinds :
          \E r \in {Philox_draw(ph, kind)}, r2 \in {Philox_draw(ph2, kind)} :
              /\ ph' = r.self
              /\ ph2' = r2.self
              /\ last' = [Op(kind, "none") EXCEPT !.out = r.out, !.out2 = r2.out]
    /\ UNCHANGED <<engine, ds, ds2>>

TwPhAdvance ==
    /\ engine = "Philox" /\ Step
    /\ \E delta \in DeltaVals, counter \in FlagVals :
          /\ ph' = Philox_advance(ph, delta, counter)
          /\ ph2' = Philox_advance(ph2, delta, counter)
          /\ last' = [Op("advance", "none") EXCEPT !.arg = delta, !.flag = counter]
    /\ UNCHANGED <<engine, ds, ds2>>

TwPhJump ==
    /\ engine = "Philox" /\ Step
    /\ \E iter \in IterVals :
          /\ ph' = Philox_jump(ph, iter).self
          /\ ph2' = Philox_jump(ph2, iter).self
          /\ last' = [Op("jump", "none") EXCEPT !.arg = iter]
    /\ UNCHANGED <<engine, ds, ds2>>

TwDsDraw ==
    /\ engine = "DSFMT" /\ Step
    /\ \E kind \in DrawKinds :
          \E r \in {DSFMT_draw(ds, kind)}, r2 \in {DSFMT_draw(ds2, kind)} :
              /\ ds' = r.self
              /\ ds2' = r2.self
              /\ last' = [Op(kind, "none") EXCEPT !.out = r.out, !.out2 = r2.out]
    /\ UNCHANGED <<engine, ph, ph2>>

TwDsJump ==
    /\ engine = "DSFMT" /\ Step
    /\ \E iter \in IterVals :
          /\ ds' = DSFMT_jump(ds, iter).self
          /\ ds2' = DSFMT_jump(ds2, iter).self
          /\ last' = [Op("jump", "none") EXCEPT !.arg = iter]
    /\ UNCHANGED <<engine, ph, ph2>>

NextTwin ==
    \/ TwPhDraw
    \/ TwPhAdvance
    \/ TwPhJump
    \/ TwDsDraw
    \/ TwDsJump

SpecTwin == InitTwin /\ [][NextTwin]_vars

----------------------------------------------------------------------------
(* Calls with arguments at and beyond the limits of what is accepted *)

\* seed(seed, counter, key) triples around the limits of the instance's
\* variant: the limit itself, one below it, a negative value, seed and key
\* together, a key alone
LimitSeedArgs(self) ==
    LET half == Pow2((self.n * WordBits(self.w)) \div 2)
        full == Pow2(self.n * WordBits(self.w))
    IN  {<<Some(half), None, None>>, <<Some(half - 1), None, None>>,
         <<Some(0 - 1), None, None>>,
         <<None, None, Some(half)>>, <<None, Some(full - 1), Some(half - 1)>>,
         <<None, Some(full), Some(1)>>, <<Some(1), Some(full), None>>,
         <<Some(1), Some(0 - 1), None>>, <<Some(1), None, Some(2)>>,
         <<None, None, Some(1)>>}

\* self.seed(seed, counter, key)
ErPhSeed ==
    /\ engine = "Philox" /\ Step
    /\ \E a \in LimitSeedArgs(ph) :
          \E r \in {Philox_seed(ph, a[1], a[2], a[3], 3)} :
              /\ ph' = r.self
              /\ last' = [Op("seed", r.exc) EXCEPT !.seed = a[1], !.counter = a[2],
                                                   !.key = a[3],
                                                   !.pre_has_uint32 = ph.has_uint32,
                                                   !.pre_buffer_pos = ph.buffer_pos]
    /\ UNCHANGED <<engine, ph2, ds, ds2>>

\* DSFMT seeds around 2**32 - 1; last.arg tells the kind: 1 in range, 0 not
LimitDSFMTSeeds ==
    {<<IntSeed(Word32), 0>>, <<IntSeed(0 - 1), 0>>, <<IntSeed(Word32 - 1), 1>>,
     <<ArraySeed(<<1, Word32>>), 0>>, <<ArraySeed(<<0 - 1, 2>>), 0>>,
     <<ArraySeed(<<Word32 - 1, 2>>), 1>>}

\* self.seed(seed)
ErDsSeed ==
    /\ engine = "DSFMT" /\ Step
    /\ \E a \in LimitDSFMTSeeds :
          \E r \in {DSFMT_seed(ds, a[1], <<3, 1>>)} :
              /\ ds' = r.self
              /\ last' = [Op("seed", r.exc) EXCEPT !.arg = a[2],
                                                   !.pre_has_uint32 = ds.has_uint32,
                                                   !.pre_buffer_pos = ds.buffer_loc]
    /\ UNCHANGED <<engine, ph, ph2, ds2>>

\* the dict d without the entry k
Without(d, k) == [x \in DOMAIN d \ {k} |-> d[x]]

\* values assigned to the state of a Philox instance, made from its own
\* snapshot g: no dict, an edited snapshot with a foreign or an absent tag, the other number with the
\* arrays left as they are, a missing entry, an out-of-range counter word, a
\* too-short buffer, a cursor beyond the buffer, and number = 3 with arrays
\* of that length
PhBadStateValues(self) ==
    LET g == Philox_state_get(self)
        three == [i \in 0..2 |-> 0]
    IN  {<<"set_nondict", NotADict>>,
         <<"set_badtag", Dict([g EXCEPT !.bit_generator = "DSFMT",
                                        !.has_uint32 = 1, !.uinteger = 1])>>,
         <<"set_notag", Dict(Without([g EXCEPT !.buffer_pos = 0], "bit_generator"))>>,
         <<"set_bad", Dict([g EXCEPT !.number = 6 - self.n])>>,
         <<"set_bad", Dict(Without(g, "has_uint32"))>>,
         <<"set_bad", Dict(Without(g, "state"))>>,
         <<"set_bad", Dict([g EXCEPT !.state.counter[0] = Pow2(WordBits(self.w))])>>,
         <<"set_bad", Dict([g EXCEPT !.buffer = [i \in 0..(self.n - 2) |-> 0]])>>,
         <<"set_cursor", Dict([g EXCEPT !.buffer_pos = PHILOX_BUFFER_SIZE + 3])>>,
         <<"set_number", Dict([g EXCEPT !.number = 3,
                                        !.state = [counter |-> three, key |-> [i \in 0..0 |-> 0]],
                                        !.buffer = three])>>}

\* self.state = value
ErPhSetState ==
    /\ engine = "Philox" /\ Step
    /\ ph.n \in {2, 4}
    /\ \E lv \in PhBadStateValues(ph) :
          \E r \in {Philox_state_set(ph, lv[2])} :
              /\ ph' = r.self
              /\ last' = [Op(lv[1], r.exc) EXCEPT !.pre_has_uint32 = ph.has_uint32,
                                                  !.pre_buffer_pos = ph.buffer_pos]
    /\ UNCHANGED <<engine, ph2, ds, ds2>>

\* ph2 = Philox(seed=1, number=N, width=W); nothing is bound when it raises
ErPhConstruct ==
    /\ engine = "Philox" /\ Step
    /\ \E v \in {<<3, 64>>, <<4, 16>>, <<2, 64>>} :
          \E r \in {Philox_init(Some(1), None, None, v[1], v[2], 3)} :
              /\ ph2' = IF r.exc = "none" THEN r.self ELSE ph2
              /\ last' = [Op("construct", r.exc) EXCEPT !.arg = v[1], !.out = v[2]]
    /\ UNCHANGED <<engine, ph, ds, ds2>>

\* values assigned to the state of a DSFMT instance, made from its own
\* snapshot g: no dict, an edited snapshot with a foreign or an absent tag, a too-short twist array,
\* another twist array with the uniforms missing, too few uniforms, a
\* missing cursor, a cursor beyond the buffer
DsBadStateValues(self) ==
    LET g == DSFMT_state_get(self)
    IN  {<<"set_nondict", NotADict>>,
         <<"set_badtag", Dict([g EXCEPT !.bit_generator = "Philox",
                                        !.state.state = ZeroStatus])>>,
         <<"set_notag", Dict(Without([g EXCEPT !.buffer_loc = 0], "bit_generator"))>>,
         <<"set_bad", Dict([g EXCEPT !.state.state = [i \in 0..(StatusLen - 2) |-> 0]])>>,
         <<"set_bad", Dict(Without([g EXCEPT !.state.state = ZeroStatus], "buffered_uniforms"))>>,
         <<"set_bad", Dict([g EXCEPT !.buffered_uniforms = [i \in 0..(DSFMT_N64 - 2) |-> 0]])>>,
         <<"set_bad", Dict(Without(g, "buffer_loc"))>>,
         <<"set_cursor", Dict([g EXCEPT !.buffer_loc = DSFMT_N64 + 3])>>}

\* self.state = value
ErDsSetState ==
    /\ engine = "DSFMT" /\ Step
    /\ \E lv \in DsBadStateValues(ds) :
          \E r \in {DSFMT_state_set(ds, lv[2])} :
              /\ ds' = r.self
              /\ last' = [Op(lv[1], r.exc) EXCEPT !.pre_has_uint32 = ds.has_uint32,
                                                  !.pre_buffer_pos = ds.buffer_loc]
    /\ UNCHANGED <<engine, ph, ph2, ds2>>

NextErr ==
    \/ PhDraw
    \/ ErPhSeed
    \/ ErPhSetState
    \/ ErPhConstruct
    \/ DsDraw
    \/ ErDsSeed
    \/ ErDsSetState

SpecErr == Init /\ [][NextErr]_vars

----------------------------------------------------------------------------
(* The life of one DSFMT instance and of its two native blocks *)

\* the object exists, __init__ has not run: the struct is zeroed
InitMem ==
    /\ engine = "DSFMT"
    /\ ds = DSFMTAlloc
    /\ ds2 = DSFMTAlloc
    /\ ph = PhiloxAlloc
    /\ ph2 = PhiloxAlloc
    /\ last = Op("new", "none")
    /\ nops = 0
    /\ heap = NullHeap

MemStep == nops < MaxOps + 2 /\ nops' = nops + 1

\* DSFMT.__init__(seed): both blocks are requested (either request may
\* return NULL), the cursor is set, and seed() is called, which hands
\* rng_state.state to the library unless the seed is refused first
MemInit ==
    /\ heap.phase = "new" /\ MemStep
    /\ \E s_ok \in BOOLEAN, u_ok \in BOOLEAN, seed \in DSFMTSeedVals :
          \E e \in (IF seed.k = "none" THEN DSFMTEntropyVals ELSE {<<3, 1>>}) :
          \E r \in {DSFMT_init(seed, e)} :
              /\ ds' = IF s_ok \/ r.exc # "none" THEN r.self
                       ELSE [DSFMTAlloc EXCEPT !.buffer_loc = DSFMT_N64]
              /\ heap' = [heap EXCEPT
                            !.state = IF s_ok THEN "live" ELSE "null",
                            !.uniforms = IF u_ok THEN "live" ELSE "null",
                            !.phase = IF r.exc = "none" THEN "ready" ELSE "failed",
                            !.fault = (r.exc = "none" /\ ~s_ok)]
              /\ last' = Op("init", r.exc)
    /\ UNCHANGED <<engine, ph, ph2, ds2>>

\* one call of an output function: it reads the cursor and the uniforms
\* and, on a refill, the twist block
MemDraw ==
    /\ heap.phase = "ready" /\ MemStep
    /\ \E kind \in DrawKinds :
          \E r \in {DSFMT_draw(ds, kind)} :
              LET ok == heap.state = "live" /\ heap.uniforms = "live"
              IN  /\ ds' = IF ok THEN r.self ELSE ds
                  /\ heap' = [heap EXCEPT !.fault = heap.fault \/ ~ok]
                  /\ last' = [Op(kind, "none") EXCEPT !.out = IF ok THEN r.out ELSE 0]
    /\ UNCHANGED <<engine, ph, ph2, ds2>>

\* DSFMT.__dealloc__: each pointer that is not NULL is freed; the pointer
\* itself is left as it is
MemDealloc ==
    /\ heap.phase \in {"ready", "failed", "dead"} /\ MemStep
    /\ heap' = [heap EXCEPT
                  !.phase = "dead",
                  !.state = IF heap.state # "null" THEN "freed" ELSE "null",
                  !.state_frees = IF heap.state # "null" THEN @ + 1 ELSE @,
                  !.uniforms = IF heap.uniforms # "null" THEN "freed" ELSE "null",
                  !.uniforms_frees = IF heap.uniforms # "null" THEN @ + 1 ELSE @]
    /\ last' = Op("dealloc", "none")
    /\ UNCHANGED <<engine, ph, ph2, ds, ds2>>

NextMem ==
    \/ MemInit
    \/ MemDraw
    \/ MemDealloc

SpecMem == InitMem /\ [][NextMem]_vars

----------------------------------------------------------------------------
(* Seeding from a seed sequence: Philox.from_seed_seq builds an instance   *)
(* and hands it words generated by a SeedSequence                          *)

\* values a 64-bit word of a seed sequence may take: a small one, 2^32, and
\* the largest
SeedWordVals == {1, Pow2(WordBits(32)), Word64 - 1}

\* the seed sequences tried, each given by the 64-bit words it generates
SeedSeqs == [0..1 -> SeedWordVals]

\* SeedSequence.generate_state(n_words, np.uint64)
generate_state(seed_seq, n_words) == [i \in 0..(n_words - 1) |-> seed_seq[i]]

\* Philox._seed_from_seq(seed_seq, counter): the generated uint64 array is
\* passed as key; seed() reads an array key as the integer its 64-bit words
\* spell, little-endian, and validates that integer
Philox_seed_from_seq(self, seed_seq, counter) ==
    LET seed_seq_size == Max((self.n * self.w) \div 128, 1)
        state == generate_state(seed_seq, seed_seq_size)
    IN  Philox_seed(self, None, counter,
                    Some(WordsInt(state, WordBits(64), seed_seq_size)), 3)

\* Philox.from_seed_seq(entropy, counter, number, width): the base class
\* constructs cls(number=number, width=width) and calls _seed_from_seq on it
Philox_from_seed_seq(seed_seq, counter, number, width, entropy) ==
    LET bit_gen == Philox_init(None, None, None, number, width, entropy)
    IN  IF bit_gen.exc # "none" THEN bit_gen
        ELSE Philox_seed_from_seq(bit_gen.self, seed_seq, counter)

\* no instance is bound yet
InitSeq ==
    /\ engine = "Philox"
    /\ ph = PhiloxAlloc
    /\ ph2 = PhiloxAlloc
    /\ ds = DSFMTAlloc
    /\ ds2 = DSFMTAlloc
    /\ last = Op("new", "none")
    /\ nops = 0
    /\ heap = LiveHeap

\* ph = Philox.from_seed_seq(seed_seq, counter, number, width); nothing is
\* bound when it raises. last records number, width and the key the words
\* spell
SeqFromSeedSeq ==
    /\ engine = "Philox" /\ Step
    /\ \E v \in Variants, seed_seq \in SeedSeqs, counter \in {None, Some(5)} :
          \E e \in EntropyVals :
          \E r \in {Philox_from_seed_seq(seed_seq, counter, v[1], v[2], e)} :
              /\ ph' = IF r.exc = "none" THEN r.self ELSE ph
              /\ last' = [Op("from_seed_seq", r.exc) EXCEPT
                             !.arg = v[1], !.out = v[2], !.counter = counter,
                             !.key = Some(WordsInt(seed_seq, WordBits(64),
                                                   Max((v[1] * v[2]) \div 128, 1)))]
    /\ UNCHANGED <<engine, ph2, ds, ds2>>

\* one call of an output function bound to the instance, once there is one
SeqDraw ==
    /\ ph.n \in {2, 4}
    /\ PhDraw

NextSeq ==
    \/ SeqFromSeedSeq
    \/ SeqDraw

SpecSeq == InitSeq /\ [][NextSeq]_vars

----------------------------------------------------------------------------
(* What the claims speak of *)

\* outputs looked at after an operation
Lookahead == 5

\* the fields of the native Philox struct, read through its number and width
PhFields(p) ==
    LET v == <<p.number, p.width>>
    IN  [counter |-> [i \in 0..(p.number - 1) |-> ReadCtr(p.mem, v, i)],
         key |-> [i \in 0..((p.number \div 2) - 1) |-> ReadKey(p.mem, v, i)],
         buffer |-> [i \in 0..(p.number - 1) |-> BufRead(p.buffer[i], p.width)],
         buffer_pos |-> p.buffer_pos,
         has_uint32 |-> p.has_uint32,
         uinteger |-> p.uinteger,
         number |-> p.number,
         width |-> p.width]

\* the next k outputs of an entry point
RECURSIVE PhOutputs(_, _, _)
PhOutputs(p, kind, k) ==
    IF k = 0 THEN <<>>
    ELSE LET r == Philox_draw(p, kind)
         IN  <<r.out>> \o PhOutputs(r.self, kind, k - 1)

RECURSIVE DsOutputs(_, _, _)
DsOutputs(p, kind, k) ==
    IF k = 0 THEN <<>>
    ELSE LET r == DSFMT_draw(p, kind)
         IN  <<r.out>> \o DsOutputs(r.self, kind, k - 1)

\* b continues exactly as a would
PhSame(b, a) ==
    /\ PhFields(b) = PhFields(a)
    /\ \A kind \in DrawKinds : PhOutputs(b, kind, Lookahead) = PhOutputs(a, kind, Lookahead)

----------------------------------------------------------------------------
(* C1 *)

\* C1: reading the state of a Philox instance and assigning it to the same
\* instance, to a newly constructed instance of any variant, or to another
\* existing instance succeeds and gives an instance with the source's
\* counter, key, buffer, buffer_pos, has_uint32, uinteger, number and width,
\* whose later outputs are the source's.
C1_RoundTrip ==
    [][/\ last'.op = "roundtrip" => (last'.exc = "none" /\ PhSame(ph', ph))
       /\ (engine = "Philox" /\ last'.op = "assign") =>
              (last'.exc = "none" /\ PhSame(ph2', ph))
       /\ (engine = "Philox" /\ last'.op = "restore") =>
              (last'.exc = "none" /\ PhSame(ph', ph2))]_vars

\* a state was assigned that holds a half-served buffer and a leftover half
C1_Witness ==
    /\ engine = "Philox"
    /\ last.op = "assign"
    /\ ph.has_uint32 = 1
    /\ ph.buffer_pos < ph.n
    /\ PhFields(ph2) = PhFields(ph)

----------------------------------------------------------------------------
(* C2 *)

PhiloxSnapshotKeys == {"state", "buffer", "buffer_pos", "has_uint32", "uinteger"}
DSFMTSnapshotKeys == {"state", "buffered_uniforms", "buffer_loc", "has_uint32", "uinteger"}

\* C2: for every engine the snapshot holds the leftover-half fields beside
\* payload, buffer and cursor, and after b.state = a.state the instances a
\* and b agree on every field of the native struct.
C2_SnapshotComplete ==
    (last.op = "assign" /\ last.exc = "none") =>
        IF engine = "Philox"
        THEN /\ PhiloxSnapshotKeys \subseteq DOMAIN Philox_state_get(ph)
             /\ PhFields(ph2) = PhFields(ph)
        ELSE /\ DSFMTSnapshotKeys \subseteq DOMAIN DSFMT_state_get(ds)
             /\ ds2 = ds

----------------------------------------------------------------------------
(* C3 *)

\* C3: jumped(iter) leaves the instance it is called on exactly as it was,
\* whether it returns or raises, for Philox and for DSFMT.
C3_JumpedPure ==
    [][last'.op = "jumped" => (ph' = ph /\ ds' = ds)]_vars

\* jumped returned a jumped copy while self keeps its leftover half
C3_Witness ==
    /\ engine = "Philox"
    /\ last.op = "jumped" /\ last.exc = "none" /\ last.arg > 0
    /\ ph.has_uint32 = 1
    /\ ph2.has_uint32 = 0
    /\ PhFields(ph2).counter # PhFields(ph).counter

----------------------------------------------------------------------------
(* C4 *)

\* the instance after k outputs of an entry point were drawn
RECURSIVE PhSkip(_, _, _)
PhSkip(p, kind, k) ==
    IF k = 0 THEN p ELSE PhSkip(Philox_draw(p, kind).self, kind, k - 1)

\* 2^(W*N/2)
JumpDistance(p) == Pow2((WordBits(p.w) * p.n) \div 2)

\* b continues as a would after k numbers were drawn from it, numbers being
\* raw words or 64-bit outputs
AsIfDrawn(b, a, k) ==
    \E kind \in {"raw", "uint64"} :
        PhOutputs(b, kind, Lookahead) = PhOutputs(PhSkip(a, kind, k), kind, Lookahead)

\* C4: from a freshly seeded instance, jump(iter) and jumped(iter) continue
\* as if exactly iter * 2^(W*N/2) random numbers had been generated.
C4_JumpStride ==
    [][(engine = "Philox" /\ nops = 0 /\ last'.arg >= 0) =>
          /\ last'.op = "jumped" => AsIfDrawn(ph2', ph, last'.arg * JumpDistance(ph))
          /\ last'.op = "jump" => AsIfDrawn(ph', ph, last'.arg * JumpDistance(ph))]_vars

----------------------------------------------------------------------------
(* C5 *)

\* C5: for every state and every valid iter the object jumped(iter) returns
\* is in the state the instance itself has after jump(iter), and jump
\* returns the instance it mutated; for Philox and for DSFMT.
C5_JumpEquivalence ==
    [][(last'.op = "jump" /\ last'.exc = "none") =>
          IF engine = "Philox"
          THEN /\ Philox_jump(ph, last'.arg).ret = ph'
               /\ \A e \in EntropyVals : PhSame(Philox_jumped(ph, last'.arg, e).ret, ph')
          ELSE /\ DSFMT_jump(ds, last'.arg).ret = ds'
               /\ \A e \in DSFMTEntropyVals : DSFMT_jumped(ds, last'.arg, e).ret = ds']_vars

----------------------------------------------------------------------------
(* C6 *)

DsSame(b, a) ==
    /\ DSFMT_state_get(b) = DSFMT_state_get(a)
    /\ \A kind \in DrawKinds : DsOutputs(b, kind, Lookahead) = DsOutputs(a, kind, Lookahead)

\* C6: two instances constructed with the same seed or key, counter, number
\* and width (Philox), or the same integer or array seed (DSFMT), have the
\* same snapshot after construction and after any common sequence of draws,
\* advances and jumps, and give the same outputs.
C6_Determinism ==
    /\ last.out = last.out2
    /\ engine = "Philox" => (Philox_state_get(ph) = Philox_state_get(ph2) /\ PhSame(ph, ph2))
    /\ engine = "DSFMT" => DsSame(ds, ds2)

\* both instances served the same word from a buffer filled after a stride
C6_Witness ==
    /\ engine = "Philox"
    /\ nops = 2
    /\ last.op = "uint32"
    /\ last.out = last.out2
    /\ ph.has_uint32 = 1 /\ ph2.has_uint32 = 1
    /\ PhFields(ph).counter # [i \in 0..(ph.n - 1) |-> 0]

----------------------------------------------------------------------------
(* C7 *)

\* C7: after every successful seed call has_uint32 = 0, uinteger = 0 and the
\* cursor marks the buffer empty (Philox: all buffer words 0), for Philox
\* and for DSFMT.
C7_SeedResets ==
    (last.op = "seed" /\ last.exc = "none") =>
        IF engine = "Philox"
        THEN /\ ph.has_uint32 = 0 /\ ph.uinteger = 0
             /\ ph.buffer_pos = PHILOX_BUFFER_SIZE /\ ph.buffer = ZeroBuffer
        ELSE /\ ds.has_uint32 = 0 /\ ds.uinteger = 0
             /\ ds.buffer_loc = DSFMT_N64

----------------------------------------------------------------------------
(* C8 *)

\* C8: after advance(delta, counter) returns, for any delta (zero, positive
\* or negative) and either flag, has_uint32 = 0 and uinteger = 0.
C8_AdvanceClears ==
    (engine = "Philox" /\ last.op = "advance") => (ph.has_uint32 = 0 /\ ph.uinteger = 0)

----------------------------------------------------------------------------
(* C9 *)

\* C9: after jump_inplace(iter), iter >= 0 (0 included), reached through
\* jump or on the copy jumped makes, the buffer is empty: Philox buffer_pos
\* = 4, buffer words 0, has_uint32 = 0, uinteger = 0; DSFMT buffer_loc at
\* the end of the buffer.
C9_JumpResets ==
    (last.op \in {"jump", "jumped"} /\ last.exc = "none" /\ last.arg >= 0) =>
        IF engine = "Philox"
        THEN LET p == IF last.op = "jump" THEN ph ELSE ph2
             IN  /\ p.buffer_pos = PHILOX_BUFFER_SIZE /\ p.buffer = ZeroBuffer
                 /\ p.has_uint32 = 0 /\ p.uinteger = 0
        ELSE LET d == IF last.op = "jump" THEN ds ELSE ds2
             IN  d.buffer_loc = DSFMT_N64

----------------------------------------------------------------------------
(* C10 *)

----------------------------------------------------------------------------
(* C11 *)

\* the instance after advance(-d), called with the same flag
AdvanceBack(p, d, flag) == Philox_advance(p, 0 - d, flag)

\* C11: for every Philox state and every integer d, advance(d) followed by
\* advance(-d) leaves the counter at its value before the first call, the
\* key unchanged, and buffer, buffer_pos, has_uint32 and uinteger at their
\* empty defaults; a negative delta is wrapped, never rejected.
C11_AdvanceInverse ==
    [][(engine = "Philox" /\ last'.op = "advance" /\ last'.flag \in {None, Some(TRUE)}) =>
          LET v == <<ph.n, ph.w>>
              q == AdvanceBack(ph', last'.arg, last'.flag)
          IN  /\ last'.exc = "none"
              /\ CtrInt(q.mem, v) = CtrInt(ph.mem, v)
              /\ KeyInt(q.mem, v) = KeyInt(ph.mem, v)
              /\ q.buffer = ZeroBuffer /\ q.buffer_pos = PHILOX_BUFFER_SIZE
              /\ q.has_uint32 = 0 /\ q.uinteger = 0]_vars

----------------------------------------------------------------------------
(* C12 *)

\* the integer seed of a Philox seed call is outside [0, 2^(number*width/2))
PhiloxSeedOutOfRange(p, seed) ==
    /\ ~IsNone(seed)
    /\ (Val(seed) < 0 \/ Val(seed) >= Pow2((p.n * WordBits(p.w)) \div 2))

\* C12: seed with a negative integer seed or one at or above the bound
\* (Philox 2^(number*width/2); DSFMT 2^32, also for an element of an array
\* seed) raises ValueError and leaves payload, buffer, cursor and leftover
\* half as they were.
C12_SeedRange ==
    [][/\ (engine = "Philox" /\ last'.op = "seed" /\ PhiloxSeedOutOfRange(ph, last'.seed)) =>
              (last'.exc = "ValueError" /\ ph' = ph)
       /\ (engine = "DSFMT" /\ last'.op = "seed" /\ last'.arg = 0) =>
              (last'.exc = "ValueError" /\ ds' = ds)]_vars

\* a seed at the bound was refused while a leftover half was cached
C12_Witness ==
    /\ last.op = "seed" /\ last.exc = "ValueError"
    /\ \/ /\ engine = "Philox"
          /\ last.seed = Some(Pow2((ph.n * WordBits(ph.w)) \div 2))
          /\ ph.has_uint32 = 1 /\ ph.buffer_pos < ph.n
       \/ /\ engine = "DSFMT"
          /\ last.arg = 0
          /\ ds.has_uint32 = 1 /\ ds.buffer_loc < DSFMT_N64

----------------------------------------------------------------------------
(* C13 *)

SetOps == {"set_nondict", "set_badtag", "set_notag", "set_bad", "set_cursor", "set_number"}

\* C13: when an assignment to state raises, for whatever reason, every field
\* of the instance (Philox: number, width and the bound output functions
\* too; DSFMT: the twist array and idx too) is as before the assignment.
C13_NoPartialMutation ==
    [][(last'.op \in SetOps /\ last'.exc # "none") => (ph' = ph /\ ds' = ds)]_vars

----------------------------------------------------------------------------
(* C14 *)

\* C14: assigning a non-dict to state raises TypeError, assigning a dict
\* whose bit_generator entry is absent or names another class raises
\* ValueError, and in both cases no field was written; for Philox and DSFMT.
C14_TypeAndTag ==
    [][/\ last'.op = "set_nondict" =>
              (last'.exc = "TypeError" /\ ph' = ph /\ ds' = ds)
       /\ last'.op \in {"set_badtag", "set_notag"} =>
              (last'.exc = "ValueError" /\ ph' = ph /\ ds' = ds)]_vars

\* a dict without the tag was refused by an instance that holds buffered
\* words
C14_Witness ==
    /\ last.op = "set_notag" /\ last.exc = "ValueError"
    /\ engine = "Philox"
    /\ ph.buffer_pos < ph.n
    /\ ph.buffer # ZeroBuffer

----------------------------------------------------------------------------
(* C15 *)

\* C15: jump(iter) and jumped(iter) with iter < 0 raise ValueError and
\* change no state, for Philox and for DSFMT.
C15_NegativeJump ==
    [][(last'.op \in {"jump", "jumped"} /\ last'.arg < 0) =>
          (last'.exc = "ValueError" /\ ph' = ph /\ ds' = ds)]_vars

----------------------------------------------------------------------------
(* C16 *)

\* number, width, the instance fields and the bound functions agree on one
\* supported variant
ValidVariant(p) ==
    /\ p.number \in {2, 4} /\ p.width \in {32, 64}
    /\ p.n = p.number /\ p.w = p.width
    /\ p.fns = <<p.number, p.width>>

\* C16: in every reachable state of a Philox instance number is 2 or 4,
\* width is 32 or 64, (n, w) equal (number, width) and the bound output
\* functions are those of that variant; a constructor argument or a
\* number / width entry of an assigned state outside these is refused with
\* ValueError.
C16_VariantValid ==
    engine = "Philox" =>
        /\ ValidVariant(ph)
        /\ ph2 # PhiloxAlloc => ValidVariant(ph2)
        /\ (last.op = "construct" /\ <<last.arg, last.out>> \notin Variants) =>
               last.exc = "ValueError"
        /\ last.op = "set_number" => last.exc = "ValueError"

----------------------------------------------------------------------------
(* C17 *)

\* C17: in every reachable state the cursor lies in [0, capacity], the
\* capacity being the length of the buffer the state getter reports
\* (Philox: number words, cursor buffer_pos; DSFMT: DSFMT_N64 doubles,
\* cursor buffer_loc).
C17_CursorBound ==
    IF engine = "Philox"
    THEN LET capacity == Cardinality(DOMAIN Philox_state_get(ph).buffer)
         IN  0 <= ph.buffer_pos /\ ph.buffer_pos <= capacity
    ELSE LET capacity == Cardinality(DOMAIN DSFMT_state_get(ds).buffered_uniforms)
         IN  0 <= ds.buffer_loc /\ ds.buffer_loc <= capacity

----------------------------------------------------------------------------
(* C18 *)

\* C18: the twist block and the uniform block of a DSFMT instance are each
\* freed at most once however often the teardown routine runs, a live block
\* does not outlive the teardown, and no operation uses a block that was
\* never allocated (a failed allocation ends construction before seeding).
C18_MemoryOwnership ==
    /\ heap.state_frees <= 1
    /\ heap.uniforms_frees <= 1
    /\ ~heap.fault
    /\ heap.phase = "dead" => (heap.state # "live" /\ heap.uniforms # "live")

----------------------------------------------------------------------------
(* C19 *)

\* the arguments of a Philox seed call that must be refused: seed and key
\* together, a key outside [0, 2^(number/2*width)), a counter outside
\* [0, 2^(number*width))
PhiloxSeedRefused(p, seed, counter, key) ==
    \/ ~IsNone(seed) /\ ~IsNone(key)
    \/ ~IsNone(key) /\ (Val(key) < 0 \/ Val(key) >= Pow2((p.n \div 2) * WordBits(p.w)))
    \/ ~IsNone(counter) /\ (Val(counter) < 0 \/ Val(counter) >= Pow2(p.n * WordBits(p.w)))

\* C19: a Philox seed call with seed and key together, or with a key or a
\* counter out of range, raises, and whenever a seed call raises the key
\* words, counter words, buffer, buffer_pos, has_uint32 and uinteger are
\* those from before the call.
C19_SeedAtomic ==
    [][(engine = "Philox" /\ last'.op = "seed") =>
          /\ PhiloxSeedRefused(ph, last'.seed, last'.counter, last'.key) =>
                 last'.exc = "ValueError"
          /\ last'.exc # "none" => ph' = ph]_vars

\* a valid seed came with a counter at the bound and was refused by an
\* instance holding buffered words and a key other than the seed's
C19_Witness ==
    /\ engine = "Philox"
    /\ last.op = "seed" /\ last.exc = "ValueError"
    /\ last.seed = Some(1)
    /\ last.counter = Some(Pow2(ph.n * WordBits(ph.w)))
    /\ ph.buffer_pos < ph.n
    /\ Philox_seed(ph, Some(1), None, None, 3).self.mem # ph.mem

----------------------------------------------------------------------------
(* C20 *)

\* word i of the little-endian expansion of x into words of wbits bits
WordOf(x, wbits, i) == (x \div Pow2(wbits * i)) % Pow2(wbits)

\* C20: after seed(key=k, counter=c) with k and c in range the getter
\* reports key[i] = (k // 2^(width*i)) mod 2^width and counter[i] =
\* (c // 2^(width*i)) mod 2^width, the key unmixed; with the counter
\* omitted the counter words are all 0, whatever the counter was before.
C20_KeyCounterPlacement ==
    [][(engine = "Philox" /\ last'.op = "seed" /\ last'.exc = "none") =>
          LET g == Philox_state_get(ph')
              wb == WordBits(ph.w)
              c == IF IsNone(last'.counter) THEN 0 ELSE Val(last'.counter)
          IN  /\ ~IsNone(last'.key) =>
                     \A i \in 0..((ph.n \div 2) - 1) :
                         g.state.key[i] = WordOf(Val(last'.key), wb, i)
              /\ \A i \in 0..(ph.n - 1) : g.state.counter[i] = WordOf(c, wb, i)]_vars

\* a two-word key and a four-word counter, both at their maximum, were
\* placed
C20_Witness ==
    /\ engine = "Philox" /\ ph.n = 4
    /\ last.op = "seed" /\ last.exc = "none"
    /\ last.key = Some(Pow2(2 * WordBits(ph.w)) - 1)
    /\ last.counter = Some(Pow2(4 * WordBits(ph.w)) - 1)
    /\ \A i \in 0..1 : Philox_state_get(ph).state.key[i] = Pow2(WordBits(ph.w)) - 1
    /\ \A i \in 0..3 : Philox_state_get(ph).state.counter[i] = Pow2(WordBits(ph.w)) - 1

----------------------------------------------------------------------------
(* C21 *)

\* C21: for every supported (number, width) the key that from_seed_seq
\* takes from the seed sequence, max(number*width//128, 1) words of 64
\* bits of any value, lies in [0, 2^(number//2*width)), and from_seed_seq
\* returns an instance seeded with that key and never raises.
C21_SeedSeqKeyInRange ==
    [][last'.op = "from_seed_seq" =>
          LET n == last'.arg
              w == last'.out
              k == Val(last'.key)
          IN  /\ k >= 0 /\ k < Pow2((n \div 2) * WordBits(w))
              /\ last'.exc = "none"
              /\ ph'.n = n /\ ph'.w = w
              /\ \A i \in 0..((n \div 2) - 1) :
                     Philox_state_get(ph').state.key[i] = WordOf(k, WordBits(w), i)]_vars

====
